---- MODULE Spec2Model ----
(***************************************************************************)
(* Model of src/src/main.rs: the SimContext of the cellular-automaton      *)
(* simulator (grid, scanner, Playing/Paused state), its per-tick update    *)
(* (move_scanner followed by calculate_state), the pause toggle, and the   *)
(* key/quit events of the driving loop that reach the SimContext.          *)
(***************************************************************************)
EXTENDS Integers, Sequences, FiniteSets, TLC

\* points, scanner, state: the fields of the SimContext.
\* pc: "running" inside the loop, "quit" after Event::Quit, "panicked" after an
\*     out-of-range index aborted the process, "draw_failed" after renderer.draw
\*     returned an error.
\* access: the grid index pairs the last operation used, in program order.
\* hist: the last two operations, each with the SimContext it started from.
\* ticks: the number of next_tick calls that started in Playing.
\* written, was_read: the grid cells written, and read, by the ticks so far.
\* frame_counter: the loop's counter of frames since the last next_tick call.
\* iterations: the number of loop iterations that got past the event polling.
\* iter: what the last such iteration did: its number n, the state after its
\*     events, whether it called next_tick, and its steps in order (the key
\*     presses handled, the next_tick call, the draw call).
VARIABLES points, scanner, state, pc, access, hist, ticks, written, was_read,
          frame_counter, iterations, iter

vars == <<points, scanner, state, pc, access, hist, ticks, written, was_read,
          frame_counter, iterations, iter>>

\* The variables of the loop around the SimContext.
loop_vars == <<frame_counter, iterations, iter>>

\* const GRID_X_SIZE: u32 = 101;
GRID_X_SIZE == 101
\* const GRID_Y_SIZE: u32 = 100, scaled down: the number of rows only sets how
\* many rows the scanner sweeps before it runs past the last one.
GRID_Y_SIZE == 6

W == GRID_X_SIZE
H == GRID_Y_SIZE

\* The key codes the event loop distinguishes: Space, Escape, and any other key.
Keycodes == {"Space", "Escape", "Return"}

\* enum SimulationState { Playing, Paused }
SimulationState == {"Playing", "Paused"}

\* struct Point(i32, i32): a pair <<x, y>>.
Point(x, y) == <<x, y>>

\* impl Add<Point> for Point: component-wise addition.
Add(a, b) == Point(a[1] + b[1], a[2] + b[2])

\* Division that rounds down where div_ceil rounds up.
div_floor(a, b) == a \div b

\* u32::div_ceil
div_ceil(a, b) == (a + b - 1) \div b

\* An index pair that the array [[bool; GRID_Y_SIZE]; GRID_X_SIZE] accepts.
InBounds(p) == p[1] \in 0..(GRID_X_SIZE - 1) /\ p[2] \in 0..(GRID_Y_SIZE - 1)

\* Vec::reverse on a sequence.
Reverse(s) == [i \in 1..Len(s) |-> s[Len(s) + 1 - i]]

\* Vec::pop: the sequence without its last element.
Pop(s) == SubSeq(s, 1, Len(s) - 1)

\* The SimContext as one value.
Ctx == [points |-> points, scanner |-> scanner, state |-> state]

\* SimContext::new
New ==
    [points  |-> [x \in 0..(GRID_X_SIZE - 1) |-> [y \in 0..(GRID_Y_SIZE - 1) |->
                    (x = div_ceil(GRID_X_SIZE, 2) /\ y = 1)]],
     scanner |-> <<Point(0, 1), Point(1, 1), Point(2, 1)>>,
     state   |-> "Paused"]

\* The head position with the wrap tested one column too late.
next_head_position_late(head) ==
    IF head[1] = GRID_X_SIZE
    THEN Point(0, head[2] + 1)
    ELSE Add(head, Point(1, 0))

\* The head position move_scanner pushes: one step right, or the start of the
\* next row when the head is in the last column.
next_head_position(head) ==
    IF head[1] = GRID_X_SIZE - 1
    THEN Point(0, head[2] + 1)
    ELSE Add(head, Point(1, 0))

\* move_scanner without its first reverse: pop, push, reverse.
move_scanner_one_reverse(c) ==
    IF c.state = "Paused"
    THEN c
    ELSE LET head   == Head(c.scanner)
             next   == next_head_position(head)
             popped == Pop(c.scanner)
             pushed == Append(popped, next)
         IN [c EXCEPT !.scanner = Reverse(pushed)]

\* move_scanner as a slide of the whole window: every point one step on.
move_scanner_slide(c) ==
    IF c.state = "Paused"
    THEN c
    ELSE [c EXCEPT !.scanner =
            [i \in 1..Len(c.scanner) |-> next_head_position(c.scanner[i])]]

\* SimContext::move_scanner: pop, reverse, push, reverse.
move_scanner(c) ==
    IF c.state = "Paused"
    THEN c
    ELSE LET head   == Head(c.scanner)
             next   == next_head_position(head)
             popped == Pop(c.scanner)
             rev    == Reverse(popped)
             pushed == Append(rev, next)
         IN [c EXCEPT !.scanner = Reverse(pushed)]

\* SimContext::get_value_at_point (evaluated on in-range points only).
get_value_at_point(c, point) == c.points[point[1]][point[2]]

\* The index pairs calculate_state uses, in program order: the reads at
\* scanner[2], scanner[1], scanner[0], then the write below scanner[1].
calc_accesses(c) ==
    <<c.scanner[3], c.scanner[2], c.scanner[1],
      Point(c.scanner[2][1], c.scanner[2][2] + 1)>>

\* The rule with & in place of |.
rule_and(p, q, r) == (p /\ ~(q /\ r)) \/ (~p /\ (q /\ r))

\* The rule with the operands p and r exchanged.
rule_swapped(p, q, r) == (r /\ ~(q \/ p)) \/ (~r /\ (q \/ p))

\* let result = p ^ (q | r);
rule(p, q, r) == (p /\ ~(q \/ r)) \/ (~p /\ (q \/ r))

\* Position of the first out-of-range index pair of a sequence, 0 when none:
\* the access at which the indexing panics.
first_fault(acc) ==
    IF \A i \in 1..Len(acc) : InBounds(acc[i])
    THEN 0
    ELSE CHOOSE i \in 1..Len(acc) :
            /\ ~InBounds(acc[i])
            /\ \A j \in 1..(i - 1) : InBounds(acc[j])

\* SimContext::calculate_state: the context it returns, the index pairs it
\* used, and whether an index was out of range (nothing is written then).
calculate_state(c) ==
    LET acc == calc_accesses(c)
        f   == first_fault(acc)
        pp  == c.scanner[3]
        pq  == c.scanner[2]
        pr  == c.scanner[1]
    IN IF f = 0
       THEN LET p == get_value_at_point(c, pp)
                q == get_value_at_point(c, pq)
                r == get_value_at_point(c, pr)
                result == rule(p, q, r)
            IN [ctx      |-> [c EXCEPT !.points[pq[1]][pq[2] + 1] = result],
                access   |-> acc,
                panicked |-> FALSE]
       ELSE [ctx |-> c, access |-> SubSeq(acc, 1, f), panicked |-> TRUE]

\* next_tick without its early return, the scanner advance done in place.
next_tick_no_return(c) ==
    calculate_state([c EXCEPT !.scanner =
        <<next_head_position(Head(c.scanner)), c.scanner[1], c.scanner[2]>>])

\* SimContext::next_tick: nothing when Paused, else move_scanner and then
\* calculate_state.
next_tick(c) ==
    IF c.state = "Paused"
    THEN [ctx |-> c, access |-> <<>>, panicked |-> FALSE]
    ELSE calculate_state(move_scanner(c))

\* The cells a next_tick result wrote: the last of its four accesses, unless
\* the call panicked.
writes_of(out) ==
    IF Len(out.access) = 4 /\ ~out.panicked THEN {out.access[4]} ELSE {}

\* The cells a next_tick result read: its in-range accesses among the first
\* three.
reads_of(out) ==
    {out.access[i] : i \in {j \in 1..Len(out.access) : j <= 3 /\ InBounds(out.access[j])}}

\* toggle_pause that only ever pauses.
toggle_pause_stuck(c) ==
    [c EXCEPT !.state = IF c.state = "Playing" THEN "Paused" ELSE "Paused"]

\* SimContext::toggle_pause
toggle_pause(c) ==
    [c EXCEPT !.state = IF c.state = "Playing" THEN "Paused" ELSE "Playing"]

\* The key codes with one more key mapped to toggle_pause.
PauseKeys_more == {"Space", "Escape", "Return"}

\* The key codes that the event loop maps to toggle_pause.
PauseKeys == {"Space", "Escape"}

\* The match on the key code of Event::KeyDown.
key_down(c, keycode) ==
    IF keycode \in PauseKeys THEN toggle_pause(c) ELSE c

\* The history after one more operation: the last two are kept.
Remember(h, e) == IF Len(h) = 0 THEN <<e>> ELSE <<h[Len(h)], e>>

Init ==
    /\ points = New.points
    /\ scanner = New.scanner
    /\ state = New.state
    /\ pc = "running"
    /\ access = <<>>
    /\ hist = <<>>
    /\ ticks = 0
    /\ written = {}
    /\ was_read = {}
    /\ frame_counter = 0
    /\ iterations = 0
    /\ iter = [n |-> 0]

\* context.next_tick() in the loop; an out-of-range index aborts the process.
NextTick ==
    /\ pc = "running"
    /\ LET out == next_tick(Ctx)
       IN /\ points' = out.ctx.points
          /\ scanner' = out.ctx.scanner
          /\ state' = out.ctx.state
          /\ access' = out.access
          /\ pc' = IF out.panicked THEN "panicked" ELSE pc
          /\ written' = written \cup writes_of(out)
          /\ was_read' = was_read \cup reads_of(out)
    /\ ticks' = IF state = "Playing" THEN ticks + 1 ELSE ticks
    /\ hist' = Remember(hist, [op |-> "next_tick", key |-> "none", ctx |-> Ctx])
    /\ UNCHANGED loop_vars

\* Event::KeyDown { keycode: Some(keycode) }
KeyDown(keycode) ==
    /\ pc = "running"
    /\ LET out == key_down(Ctx, keycode)
       IN /\ points' = out.points
          /\ scanner' = out.scanner
          /\ state' = out.state
    /\ access' = <<>>
    /\ hist' = Remember(hist, [op |-> "KeyDown", key |-> keycode, ctx |-> Ctx])
    /\ UNCHANGED <<pc, ticks, written, was_read>>
    /\ UNCHANGED loop_vars

\* Event::Quit: break 'running.
Quit ==
    /\ pc = "running"
    /\ pc' = "quit"
    /\ access' = <<>>
    /\ hist' = Remember(hist, [op |-> "Quit", key |-> "none", ctx |-> Ctx])
    /\ UNCHANGED <<points, scanner, state, ticks, written, was_read>>
    /\ UNCHANGED loop_vars

Next ==
    \/ NextTick
    \/ \E keycode \in Keycodes : KeyDown(keycode)
    \/ Quit

Spec == Init /\ [][Next]_vars

\* A run that is kept Playing: a pause key starts the simulation, after which
\* the loop only ticks.
StartPlaying == state = "Paused" /\ ticks = 0 /\ \E keycode \in PauseKeys : KeyDown(keycode)
KeepPlaying == state = "Playing" /\ NextTick

PlayNext == StartPlaying \/ KeepPlaying

\* The loop never stops calling next_tick (on every 10th iteration) while the
\* process runs.
PlaySpec == Init /\ [][PlayNext]_vars /\ WF_vars(KeepPlaying)

(***************************************************************************)
(* The driving loop of main, one whole iteration per step.                 *)
(***************************************************************************)

\* The most events one poll of the event pump returns, and the most loop
\* iterations a run is followed for.
MaxEvents == 2
MaxIterations == 30

\* The events the loop distinguishes: Quit, a key press, anything else.
Events == {"Quit", "Other"} \cup Keycodes

\* The sequences of at most n events.
RECURSIVE EventSeqs(_)
EventSeqs(n) ==
    IF n = 0 THEN {<<>>}
    ELSE LET shorter == EventSeqs(n - 1)
         IN shorter \cup {Append(q, e) : q \in {r \in shorter : Len(r) = n - 1}, e \in Events}

\* The tick test with the remainder compared to 1.
tick_due_off(fc) == fc % 10 = 1

\* if frame_counter % 10 == 0
tick_due(fc) == fc % 10 = 0

\* One arm of the match on an event: Quit breaks the loop, Space and Escape
\* toggle the pause, everything else is ignored.
handle_event(m, e) ==
    IF e = "Quit"
    THEN [m EXCEPT !.quit = TRUE,
                   !.hist = Remember(m.hist, [op |-> "Quit", key |-> "none", ctx |-> m.ctx]),
                   !.order = Append(m.order, "quit")]
    ELSE IF e \in Keycodes
    THEN [m EXCEPT !.ctx = key_down(m.ctx, e),
                   !.hist = Remember(m.hist, [op |-> "KeyDown", key |-> e, ctx |-> m.ctx]),
                   !.order = Append(m.order, "key")]
    ELSE m

\* for event in event_pump.poll_iter(): the events in order, up to a Quit.
RECURSIVE poll_events(_, _)
poll_events(m, evs) ==
    IF evs = <<>> \/ m.quit
    THEN m
    ELSE poll_events(handle_event(m, Head(evs)), Tail(evs))

\* One iteration of 'running: the polled events, frame_counter += 1, the
\* next_tick call when the counter is a multiple of 10 (and its reset), then
\* renderer.draw, whose failure ends main.
Iteration(evs, draw_ok) ==
    /\ pc = "running"
    /\ iterations < MaxIterations
    /\ LET polled == poll_events([ctx |-> Ctx, hist |-> hist, quit |-> FALSE,
                                  order |-> <<>>], evs)
       IN IF polled.quit
          THEN /\ pc' = "quit"
               /\ points' = polled.ctx.points
               /\ scanner' = polled.ctx.scanner
               /\ state' = polled.ctx.state
               /\ hist' = polled.hist
               /\ access' = <<>>
               /\ UNCHANGED <<ticks, written, was_read, frame_counter, iterations, iter>>
          ELSE LET counted == frame_counter + 1
                   due     == tick_due(counted)
                   out     == IF due
                              THEN next_tick(polled.ctx)
                              ELSE [ctx |-> polled.ctx, access |-> <<>>, panicked |-> FALSE]
                   drawn   == ~out.panicked
               IN /\ points' = out.ctx.points
                  /\ scanner' = out.ctx.scanner
                  /\ state' = out.ctx.state
                  /\ access' = out.access
                  /\ written' = written \cup writes_of(out)
                  /\ was_read' = was_read \cup reads_of(out)
                  /\ ticks' = IF due /\ polled.ctx.state = "Playing" THEN ticks + 1 ELSE ticks
                  /\ hist' = IF due
                             THEN Remember(polled.hist, [op |-> "next_tick", key |-> "none",
                                                         ctx |-> polled.ctx])
                             ELSE polled.hist
                  /\ frame_counter' = IF due /\ ~out.panicked THEN 0 ELSE counted
                  /\ pc' = IF out.panicked THEN "panicked"
                           ELSE IF draw_ok THEN "running" ELSE "draw_failed"
                  /\ iterations' = iterations + 1
                  /\ iter' = [n      |-> iterations + 1,
                              polled |-> polled.ctx.state,
                              ticked |-> due,
                              order  |-> polled.order
                                           \o (IF due THEN <<"next_tick">> ELSE <<>>)
                                           \o (IF drawn THEN <<"draw">> ELSE <<>>)]

\* What one iteration meets: any polled events with a draw that succeeds, or
\* a draw that fails.
LoopInputs ==
    {<<evs, TRUE>> : evs \in EventSeqs(MaxEvents)} \cup {<<(<<>>), FALSE>>}

LoopNext == \E input \in LoopInputs : Iteration(input[1], input[2])

LoopSpec == Init /\ [][LoopNext]_vars

TypeOK ==
    /\ state \in SimulationState
    /\ pc \in {"running", "quit", "panicked", "draw_failed"}
    /\ Len(hist) <= 2
    /\ DOMAIN points = 0..(GRID_X_SIZE - 1)

(***************************************************************************)
(* Vocabulary of the properties.                                           *)
(***************************************************************************)

\* The last operation and the SimContext it started from.
HasLast == Len(hist) >= 1
Last == hist[Len(hist)]
Before == Last.ctx

\* The last operation was a next_tick that started in Playing / in Paused.
PlayingTick == HasLast /\ Last.op = "next_tick" /\ Before.state = "Playing"
PausedTick == HasLast /\ Last.op = "next_tick" /\ Before.state = "Paused"

\* The last operation was a key press of Space or Escape.
ToggleKey == HasLast /\ Last.op = "KeyDown" /\ Last.key \in {"Space", "Escape"}

\* The grid value at a point of a grid.
ValueAt(grid, pt) == grid[pt[1]][pt[2]]

\* Exclusive or of two booleans.
Xor(a, b) == a # b

(***************************************************************************)
(* C1  calculate_state                                                     *)
(***************************************************************************)

\* C1: a Playing tick that completes has written exactly p XOR (q OR r) into
\* the cell below scanner[1], where p, q, r are the grid values (before the
\* write) at scanner[2], scanner[1], scanner[0]; every other cell, the
\* scanner left by move_scanner and the state are as calculate_state found
\* them.
C1_CalculateState ==
    (PlayingTick /\ pc = "running") =>
        LET pp == scanner[3]
            pq == scanner[2]
            pr == scanner[1]
            p  == ValueAt(Before.points, pp)
            q  == ValueAt(Before.points, pq)
            r  == ValueAt(Before.points, pr)
        IN /\ points[pq[1]][pq[2] + 1] = Xor(p, q \/ r)
           /\ \A x \in 0..(W - 1) : \A y \in 0..(H - 1) :
                 (x # pq[1] \/ y # pq[2] + 1) => points[x][y] = Before.points[x][y]
           /\ scanner = move_scanner(Before).scanner
           /\ state = Before.state
           /\ access = <<pp, pq, pr, Point(pq[1], pq[2] + 1)>>

\* C1 witness: the tick read p = false, q = true, r = false and wrote true.
C1_Witness ==
    /\ PlayingTick /\ pc = "running"
    /\ ~ValueAt(Before.points, scanner[3])
    /\ ValueAt(Before.points, scanner[2])
    /\ ~ValueAt(Before.points, scanner[1])
    /\ points[scanner[2][1]][scanner[2][2] + 1]
    /\ ~Before.points[scanner[2][1]][scanner[2][2] + 1]

(***************************************************************************)
(* C2  next_tick while Paused                                              *)
(***************************************************************************)

\* C2: a next_tick that starts in Paused leaves grid, scanner and state as
\* they were, and so do two such ticks in a row.
C2_PausedTickNoOp ==
    /\ PausedTick => (Ctx = Before /\ pc = "running")
    /\ (Len(hist) = 2 /\ PausedTick /\ hist[1].op = "next_tick"
            /\ hist[1].ctx.state = "Paused") => Ctx = hist[1].ctx

\* C2 witness: two Paused ticks in a row, after the simulation has advanced.
C2_Witness ==
    /\ Len(hist) = 2 /\ PausedTick
    /\ hist[1].op = "next_tick" /\ hist[1].ctx.state = "Paused"
    /\ points # New.points
    /\ scanner # New.scanner

(***************************************************************************)
(* C3  shape of the scanner                                                *)
(***************************************************************************)

\* The x values and the y values of the scanner's points.
ScannerXs == {scanner[i][1] : i \in 1..Len(scanner)}
ScannerYs == {scanner[i][2] : i \in 1..Len(scanner)}

\* The position of a point in row-major order.
RowMajor(pt) == pt[2] * W + pt[1]

\* C3 as claimed: in every reachable state the scanner is exactly 3 points
\* that share one y and whose x values are three consecutive integers.
C3_Original ==
    /\ Len(scanner) = 3
    /\ Cardinality(ScannerYs) = 1
    /\ \E m \in 0..(W - 1) : ScannerXs = {m, m + 1, m + 2}

\* C3 as amended: in every reachable state the scanner is exactly 3 points
\* with 0 <= x < W; it is the initial [(0,1),(1,1),(2,1)], or after the first
\* Playing tick [(1,1),(0,1),(1,1)], or three consecutive row-major positions
\* in descending order, which share one y and have consecutive x values
\* unless scanner[0].x is 0 or 1 (the two states after a row wrap).
C3_Amended ==
    /\ Len(scanner) = 3
    /\ \A i \in 1..3 : scanner[i][1] \in 0..(W - 1)
    /\ \/ scanner = <<Point(0, 1), Point(1, 1), Point(2, 1)>>
       \/ scanner = <<Point(1, 1), Point(0, 1), Point(1, 1)>>
       \/ /\ RowMajor(scanner[1]) = RowMajor(scanner[2]) + 1
          /\ RowMajor(scanner[2]) = RowMajor(scanner[3]) + 1
          /\ scanner[1][1] >= 2 =>
                /\ Cardinality(ScannerYs) = 1
                /\ scanner[2][1] = scanner[1][1] - 1
                /\ scanner[3][1] = scanner[1][1] - 2
          /\ scanner[1][1] < 2 => Cardinality(ScannerYs) = 2

\* C3 witness: just after a row wrap, reached through a pause, the scanner
\* spans two rows.
C3_Witness ==
    /\ PlayingTick
    /\ Len(hist) = 2 /\ hist[1].op = "KeyDown"
    /\ scanner[1][1] = 0
    /\ scanner[2] = Point(W - 1, scanner[1][2] - 1)
    /\ scanner[3] = Point(W - 2, scanner[1][2] - 1)

(***************************************************************************)
(* C4  grid accesses stay in range                                         *)
(***************************************************************************)

\* C4 as claimed: every grid access of every reachable next_tick uses indices
\* with 0 <= x < W and 0 <= y < H.
C4_AllAccessesInBounds ==
    \A i \in 1..Len(access) : InBounds(access[i])

(***************************************************************************)
(* C5  the first Playing tick                                              *)
(***************************************************************************)

\* The last operation was a Playing tick from the initial scanner.
FirstTick == PlayingTick /\ Before.scanner = <<Point(0, 1), Point(1, 1), Point(2, 1)>>

\* C5 as claimed: one Playing tick from the initial scanner gives
\* [(1,1),(2,1),(3,1)].
C5_Original ==
    FirstTick => scanner = <<Point(1, 1), Point(2, 1), Point(3, 1)>>

\* C5 as amended: one Playing tick from the initial scanner gives
\* [(1,1),(0,1),(1,1)]: the new head in front of the former first two points.
C5_Amended ==
    FirstTick => scanner = <<Point(1, 1), Point(0, 1), Point(1, 1)>>

\* C5 witness: the first Playing tick has run.
C5_Witness == FirstTick /\ pc = "running" /\ Len(access) = 4

(***************************************************************************)
(* C6  the row wrap                                                        *)
(***************************************************************************)

\* The last operation was a Playing tick whose scanner head was in the last
\* column.
WrapTick == PlayingTick /\ Before.scanner[1][1] = W - 1

\* C6 as claimed: after the tick the scanner is [(0,y+1),(1,y+1),(2,y+1)],
\* where y is the row of the former head, and no point has x = W.
C6_Original ==
    WrapTick =>
        LET y == Before.scanner[1][2]
        IN /\ scanner = <<Point(0, y + 1), Point(1, y + 1), Point(2, y + 1)>>
           /\ \A i \in 1..Len(scanner) : scanner[i][1] # W

\* C6 as amended: after the tick scanner[0] is (0, y+1), followed by the
\* former first two points, so the scanner is [(0,y+1),(W-1,y),(W-2,y)]
\* ([(0,2),(100,1),(99,1)] for head (100,1)); no point has x = W.
C6_Amended ==
    WrapTick =>
        LET y == Before.scanner[1][2]
        IN /\ scanner = <<Point(0, y + 1), Point(W - 1, y), Point(W - 2, y)>>
           /\ scanner[2] = Before.scanner[1]
           /\ scanner[3] = Before.scanner[2]
           /\ \A i \in 1..Len(scanner) : scanner[i][1] # W

\* C6 witness: the tick that wraps from head (W-1, 1) has run.
C6_Witness ==
    /\ WrapTick
    /\ Before.scanner[1] = Point(W - 1, 1)
    /\ scanner = <<Point(0, 2), Point(W - 1, 1), Point(W - 2, 1)>>

(***************************************************************************)
(* C7  move_scanner                                                        *)
(***************************************************************************)

\* C7: a Playing tick turns scanner [a, b, c] into [next_head, a, b] with
\* next_head = a + (1,0), or (0, a.y + 1) when a.x = W-1; length stays 3.
C7_MoveScanner ==
    PlayingTick =>
        LET a == Before.scanner[1]
            b == Before.scanner[2]
            next_head == IF a[1] = W - 1 THEN <<0, a[2] + 1>> ELSE <<a[1] + 1, a[2]>>
        IN /\ Len(Before.scanner) = 3
           /\ Len(scanner) = 3
           /\ scanner = <<next_head, a, b>>

\* C7 witness: a Playing tick from a scanner of three different points whose
\* last point is dropped.
C7_Witness ==
    /\ PlayingTick
    /\ Cardinality({Before.scanner[i] : i \in 1..3}) = 3
    /\ \A i \in 1..3 : scanner[i] # Before.scanner[3]
    /\ Before.scanner[1][1] # W - 1

(***************************************************************************)
(* C8  the rule number                                                     *)
(***************************************************************************)

\* Bit i of the number n.
Bit(n, i) == ((n \div (2 ^ i)) % 2) = 1

\* 1 for TRUE, 0 for FALSE.
B2N(b) == IF b THEN 1 ELSE 0

\* The last operation was a completed Playing tick whose scanner lies in one
\* row at x-1, x, x+1.
OneRowTick ==
    /\ PlayingTick /\ pc = "running"
    /\ Cardinality(ScannerYs) = 1
    /\ \E m \in 0..(W - 1) : ScannerXs = {m, m + 1, m + 2}

\* The cell the tick wrote equals the bit 4L + 2C + R of the rule number n,
\* with L, C, R the values left of, at and right of the middle scanner point.
WritesRule(n) ==
    LET x == scanner[2][1]
        y == scanner[2][2]
        L == Before.points[x - 1][y]
        C == Before.points[x][y]
        R == Before.points[x + 1][y]
    IN points[x][y + 1] = Bit(n, 4 * B2N(L) + 2 * B2N(C) + B2N(R))

\* C8 as claimed: whenever the scanner lies in one row at x-1, x, x+1, the
\* value the tick writes at (x, y+1) is bit 4L + 2C + R of 94.
C8_Original == OneRowTick => WritesRule(94)

\* C8 as amended: ... is bit 4L + 2C + R of 30 (Wolfram rule 30).
C8_Amended == OneRowTick => WritesRule(30)

\* C8 witness: the tick read L = 1, C = 1, R = 0 and wrote 0, where rules 94
\* and 30 differ.
C8_Witness ==
    /\ OneRowTick
    /\ Before.points[scanner[2][1] - 1][scanner[2][2]]
    /\ Before.points[scanner[2][1]][scanner[2][2]]
    /\ ~Before.points[scanner[2][1] + 1][scanner[2][2]]
    /\ ~points[scanner[2][1]][scanner[2][2] + 1]

(***************************************************************************)
(* C9  toggle_pause                                                        *)
(***************************************************************************)

\* C9: one toggle flips Playing to Paused or Paused to Playing and changes
\* nothing else; two toggles in a row restore the SimContext exactly.
C9_ToggleTwice ==
    /\ ToggleKey =>
          /\ Before.state = "Playing" => state = "Paused"
          /\ Before.state = "Paused" => state = "Playing"
          /\ points = Before.points
          /\ scanner = Before.scanner
    /\ (Len(hist) = 2 /\ ToggleKey /\ hist[1].op = "KeyDown"
            /\ hist[1].key \in {"Space", "Escape"}) => Ctx = hist[1].ctx

\* C9 witness: two toggles in a row, from Playing, after the simulation has
\* advanced.
C9_Witness ==
    /\ Len(hist) = 2 /\ ToggleKey
    /\ hist[1].op = "KeyDown" /\ hist[1].key \in {"Space", "Escape"}
    /\ hist[1].ctx.state = "Playing"
    /\ Before.state = "Paused"
    /\ state = "Playing"
    /\ scanner # New.scanner

(***************************************************************************)
(* C10  what changes the state                                             *)
(***************************************************************************)

\* C10: the state starts as Paused; a next_tick never changes it, whether it
\* starts in Playing or in Paused; the state changes only on a key press of
\* Space or Escape, and any other key leaves it alone.
C10_OnlyToggleChangesState ==
    /\ Len(hist) = 0 => state = "Paused"
    /\ (HasLast /\ Last.op = "next_tick") => state = Before.state
    /\ (HasLast /\ state # Before.state) =>
          (Last.op = "KeyDown" /\ Last.key \in {"Space", "Escape"})
    /\ (HasLast /\ Last.op = "KeyDown" /\ Last.key \notin {"Space", "Escape"}) =>
          state = Before.state

\* C10 witness: another key and then a Playing tick, the state still Playing.
C10_Witness ==
    /\ Len(hist) = 2
    /\ hist[1].op = "KeyDown" /\ hist[1].key = "Return"
    /\ hist[1].ctx.state = "Playing"
    /\ PlayingTick
    /\ state = "Playing"

(***************************************************************************)
(* C11  SimContext::new                                                    *)
(***************************************************************************)

\* The least n with 2n >= W: the ceiling of W/2.
CeilHalfW == CHOOSE n \in 0..W : 2 * n >= W /\ 2 * (n - 1) < W

\* The true cells of the grid.
TrueCells == {pt \in (0..(W - 1)) \X (0..(H - 1)) : points[pt[1]][pt[2]]}

\* C11: before any operation the state is Paused, the scanner is
\* [(0,1),(1,1),(2,1)], and the grid has exactly one true cell, in row 1 at
\* x = ceil(W/2), which is 51 for W = 101.
C11_New ==
    Len(hist) = 0 =>
        /\ state = "Paused"
        /\ scanner = <<Point(0, 1), Point(1, 1), Point(2, 1)>>
        /\ TrueCells = {Point(CeilHalfW, 1)}
        /\ W = 101 => CeilHalfW = 51
        /\ DOMAIN points = 0..(W - 1)
        /\ \A x \in 0..(W - 1) : DOMAIN points[x] = 0..(H - 1)

\* C11 witness: the freshly built context, its seed cell set.
C11_Witness ==
    /\ Len(hist) = 0
    /\ pc = "running"
    /\ points[CeilHalfW][1]
    /\ Cardinality(TrueCells) = 1

(***************************************************************************)
(* C12  the first out-of-range access                                      *)
(***************************************************************************)

\* The number of the Playing tick that faults.
FaultTick == (H - 2) * W + 1

\* Up to tick FaultTick - 1 nothing faults and every access is in range; tick
\* FaultTick panics on the write to row H below scanner[1], after three
\* in-range reads; no tick follows it.
C12_Safety ==
    /\ ticks <= FaultTick
    /\ ticks < FaultTick =>
          /\ pc # "panicked"
          /\ \A i \in 1..Len(access) : InBounds(access[i])
    /\ pc = "panicked" => ticks = FaultTick
    /\ ticks = FaultTick =>
          /\ pc = "panicked"
          /\ Len(access) = 4
          /\ \A i \in 1..3 : InBounds(access[i])
          /\ access[4] = Point(scanner[2][1], scanner[2][2] + 1)
          /\ access[4][1] \in 0..(W - 1)
          /\ access[4][2] = H
          /\ scanner[2][2] + 1 = H

\* The simulation has been started and not quit.
KeptPlaying == state = "Playing" /\ pc # "quit"

\* C12 (in the runs that are kept Playing): once started, an out-of-range access is
\* eventually reached; the first one is calculate_state's write to row H, on Playing
\* tick (H-2)*W + 1; no earlier tick faults and no read is out of range
\* before it.
C12_FirstFault ==
    /\ []C12_Safety
    /\ (<>KeptPlaying) => <>(pc = "panicked")

\* C12 witness: the process panicked on tick (H-2)*W + 1, on the write.
C12_Witness ==
    /\ pc = "panicked"
    /\ ticks = FaultTick
    /\ Len(access) = 4
    /\ access[4][2] = H

(***************************************************************************)
(* C13  pausing is transparent                                             *)
(***************************************************************************)

\* The SimContext after n consecutive next_tick calls from the context c.  The
\* run is split in halves, and the test on the first half has it computed
\* before the second half starts, which keeps the evaluation shallow.
RECURSIVE TicksFrom(_, _)
TicksFrom(c, n) ==
    IF n = 0 THEN c
    ELSE IF n = 1 THEN next_tick(c).ctx
    ELSE LET half == TicksFrom(c, n \div 2)
         IN IF half.state \in SimulationState
            THEN TicksFrom(half, n - (n \div 2))
            ELSE half

\* The SimContext after n consecutive Playing ticks from the initial state,
\* with no pause in between.
PlayingRun(n) == TicksFrom([New EXCEPT !.state = "Playing"], n)

\* C13: whatever the interleaving of toggle_pause and next_tick calls, the
\* grid and the scanner are those of ticks consecutive Playing ticks from the
\* initial state, ticks being the number of next_tick calls made in Playing.
\* Stated along the run: at the start and after every Playing tick they equal
\* the pause-free run of ticks ticks; any other operation (a Paused tick, a
\* key, quit) leaves ticks as it is and both of them as they were.
C13_PauseTransparent ==
    IF HasLast /\ ~PlayingTick
    THEN /\ points = Before.points
         /\ scanner = Before.scanner
    ELSE LET ref == PlayingRun(ticks)
         IN /\ points = ref.points
            /\ scanner = ref.scanner

\* C13 witness: a run that was paused between two Playing ticks and ticked
\* while Paused.
C13_Witness ==
    /\ Len(hist) = 2
    /\ hist[1].op = "next_tick" /\ hist[1].ctx.state = "Paused"
    /\ hist[2].op = "KeyDown" /\ hist[2].key = "Escape"
    /\ state = "Playing"
    /\ ticks > W
    /\ points = PlayingRun(ticks).points

(***************************************************************************)
(* C14  one cell per tick, in row-major order from (0,2)                   *)
(***************************************************************************)

\* The cell at row-major position k-1 counted from (0,2).
TickCell(k) == Point((k - 1) % W, 2 + ((k - 1) \div W))

\* The number of Playing ticks that completed.
CompletedTicks == IF pc = "panicked" THEN ticks - 1 ELSE ticks

\* C14: a Playing tick that completes writes exactly one cell, the k-th one
\* the cell ((k-1) mod W, 2 + (k-1) div W); so the cells written so far are
\* one per completed tick, none twice, none in rows 0 and 1 (the seed is
\* never written), and the cell a tick writes was read by no tick so far.
C14_OneCellPerTick ==
    /\ (PlayingTick /\ pc = "running") =>
          /\ Len(access) = 4
          /\ access[4] = TickCell(ticks)
          /\ \A x \in 0..(W - 1) : \A y \in 0..(H - 1) :
                Point(x, y) # TickCell(ticks) => points[x][y] = Before.points[x][y]
          /\ TickCell(ticks) \notin was_read
    /\ written = {TickCell(k) : k \in 1..CompletedTicks}
    /\ Cardinality(written) = CompletedTicks
    /\ \A c \in written : c[2] >= 2
    /\ Point(CeilHalfW, 1) \notin written

\* C14 witness: the first tick of the second sweep has written (0,3), after
\* the ticks before it wrote the whole of row 2.
C14_Witness ==
    /\ PlayingTick /\ pc = "running"
    /\ ticks = W + 1
    /\ access[4] = Point(0, 3)
    /\ \A x \in 0..(W - 1) : Point(x, 2) \in written
    /\ Point(0, 2) \in was_read

(***************************************************************************)
(* C15  the scanner after k Playing ticks                                  *)
(***************************************************************************)

\* pos(n) = (n mod W, 1 + n div W): row-major position n counted from (0,1).
Pos(n) == Point(n % W, 1 + (n \div W))

\* C15: after k Playing ticks scanner[0] = pos(k).  For k >= 2 the scanner
\* is [pos(k), pos(k-1), pos(k-2)]: scanner[2] is the left and scanner[0] the
\* right neighbour of the middle point when the three share a row, and just
\* after a row wrap (scanner[0].x is 0 or 1) they span two rows.  For k = 1
\* the scanner is [(1,1),(0,1),(1,1)], with a duplicate point.
C15_ScannerAfterTicks ==
    /\ Len(scanner) = 3
    /\ scanner[1] = Pos(ticks)
    /\ ticks = 0 => scanner = <<Point(0, 1), Point(1, 1), Point(2, 1)>>
    /\ ticks = 1 =>
          /\ scanner = <<Point(1, 1), Point(0, 1), Point(1, 1)>>
          /\ scanner[1] = scanner[3]
    /\ ticks >= 2 =>
          /\ scanner = <<Pos(ticks), Pos(ticks - 1), Pos(ticks - 2)>>
          /\ Cardinality({scanner[i] : i \in 1..3}) = 3
          /\ IF scanner[1][1] >= 2
             THEN /\ scanner[3] = Point(scanner[2][1] - 1, scanner[2][2])
                  /\ scanner[1] = Point(scanner[2][1] + 1, scanner[2][2])
             ELSE /\ scanner[3][2] = scanner[1][2] - 1
                  /\ Cardinality({scanner[i][2] : i \in 1..3}) = 2

\* C15 witness: W Playing ticks have run and the scanner, just wrapped,
\* spans rows 1 and 2.
C15_Witness ==
    /\ ticks = W
    /\ scanner = <<Point(0, 2), Point(W - 1, 1), Point(W - 2, 1)>>
    /\ PlayingTick
(***************************************************************************)
(* C16: the driving loop.                                                  *)
(***************************************************************************)

\* The place of a step within one iteration: key presses, then the tick, then
\* the draw.
StepRank(step) == IF step = "key" THEN 0 ELSE IF step = "next_tick" THEN 1 ELSE 2

\* The last iteration's steps are in the order events, next_tick, draw.
IterationInOrder ==
    \A i \in DOMAIN iter.order : \A j \in DOMAIN iter.order :
        i < j => StepRank(iter.order[i]) <= StepRank(iter.order[j])

\* The last iteration's record is still the last thing that happened (a later
\* iteration that met Quit has handled events since).
IterationIsLast == iter.n > 0 /\ pc # "quit"

\* C16: in the driving loop next_tick is called in iteration n exactly when n
\* is a multiple of 10; frame_counter is in 0..9 at the end of every iteration
\* (it is n mod 10); the iteration's key presses are handled before its
\* next_tick call and that before its draw, so the call sees the state the
\* key presses left: when that is Paused the call changes neither grid nor
\* scanner, when it is Playing the call is a tick.
C16_DrivingLoop ==
    iter.n > 0 =>
        /\ iter.n = iterations
        /\ iter.ticked <=> (iter.n % 10 = 0)
        /\ frame_counter \in 0..9
        /\ frame_counter = iter.n % 10
        /\ IterationInOrder
        /\ pc = "running" => iter.order[Len(iter.order)] = "draw"
        /\ (IterationIsLast /\ iter.ticked) =>
               /\ Last.op = "next_tick"
               /\ Before.state = iter.polled
               /\ state = iter.polled
               /\ iter.polled = "Paused" =>
                      /\ points = Before.points
                      /\ scanner = Before.scanner
               /\ iter.polled = "Playing" =>
                      /\ scanner = move_scanner(Before).scanner
                      /\ scanner # Before.scanner

\* Iteration 20, after the tick of iteration 10 took effect: the one key press
\* of the iteration toggled Playing to Paused, then next_tick was called and
\* changed nothing, then draw.
C16_Witness ==
    /\ iter.n = 20
    /\ iter.ticked
    /\ iter.polled = "Paused"
    /\ iter.order = <<"key", "next_tick", "draw">>
    /\ ticks = 1
    /\ frame_counter = 0
    /\ Len(hist) = 2
    /\ hist[1].op = "KeyDown"
    /\ hist[1].ctx.state = "Playing"
    /\ hist[2].op = "next_tick"
    /\ points = hist[1].ctx.points
    /\ scanner = hist[1].ctx.scanner

====
